---- MODULE Spec2Model ----
(***************************************************************************)
(* GeoQuiz MCP server (src/server.py): the quiz store, the three tools     *)
(* create_map_quiz / request_hint / request_answer, and the event loop     *)
(* that runs them.                                                         *)
(*                                                                         *)
(* Every tool call is made by a client session.  A call is first pending   *)
(* (the request has arrived), then its handler runs.  create_map_quiz is   *)
(* an `async def` without a single `await`, and request_hint and           *)
(* request_answer are plain functions, so the event loop runs each handler *)
(* to completion before it starts another one (LoopFree).  The steps of    *)
(* create_map_quiz are kept apart so that their order can be stated.       *)
(*                                                                         *)
(* A second copy of the data (twinStore, the twin fields of a call) runs   *)
(* the same calls against a geocoder that may answer with other addresses; *)
(* it is what the staged-disclosure claim compares.                        *)
(***************************************************************************)
EXTENDS Integers, Sequences, FiniteSets, TLC

VARIABLES
    store,      \* QuizStore._store: quiz id -> record               (line 36)
    twinStore,  \* the store of the twin run
    call,       \* per session: the tool call in flight or last answered
    created,    \* history: the successful creates, in order of their response
    nCalls      \* history: number of calls submitted so far

vars == <<store, twinStore, call, created, nCalls>>

----------------------------------------------------------------------------
(* Bounds *)

MaxCalls == 3
MaxPolicyZoom == 30

\* The client sessions; each has at most one call in flight.
Sessions == {"s1", "s2"}

----------------------------------------------------------------------------
(* Inputs *)

\* zoom: int = 12 in the signature of create_map_quiz
DefaultZoom == 12

\* An optional value is <<>> (absent / None) or <<v>>.
None == <<>>
Some(v) == <<v>>

ZoomInputs == {None, Some(8), Some(9)}

\* What a caller asks for, but for the zoom: a place abroad, a place in Korea.
Places ==
    { [condition |-> "c-abroad", iskorea |-> FALSE, quiz_type |-> "country",
       lat |-> 35, lon |-> 139, tags |-> None],
      [condition |-> "c-korea", iskorea |-> TRUE, quiz_type |-> "si-do",
       lat |-> 37, lon |-> 126, tags |-> Some(<<"tag">>)] }

CreateArgs ==
    { [condition |-> p.condition, iskorea |-> p.iskorea, quiz_type |-> p.quiz_type,
       lat |-> p.lat, lon |-> p.lon, zoom |-> z, tags |-> p.tags] :
        p \in Places, z \in ZoomInputs }

Addresses == {"addr-A", "addr-B"}

\* What geolocator.reverse can do: raise, return None, return a location.
GeoOutcomes ==
    {[kind |-> "raise", address |-> None], [kind |-> "none", address |-> None]}
    \cup {[kind |-> "found", address |-> Some(a)] : a \in Addresses}

----------------------------------------------------------------------------
(* Errors.  str(e) of an exception is the sequence of the pieces of text it *)
(* was built from, so a wrapped message still shows what it wraps.          *)

ForeignZoomMsg == "foreign location: zoom must be 7 or 8"          \* line 244
KoreaZoomMsg == "location in Korea: zoom must be between 10 and 16" \* line 246
BadCoordinateMsg == "invalid coordinates, try again"              \* line 252
GeocoderFailureMsg == "geocoder failure"     \* whatever geolocator.reverse raises
UnknownQuizMsg == "Unknown quiz_id; request a new quiz first."     \* line 50
CreateErrorPrefix == "X error: "                                  \* line 284
LookupErrorPrefix == "error: "                              \* lines 309, 335

NoResult == [kind |-> "none", error |-> <<>>, value |-> None]
Returned(v) == [kind |-> "ok", error |-> <<>>, value |-> Some(v)]
Raised(msg) == [kind |-> "error", error |-> msg, value |-> None]

----------------------------------------------------------------------------
(* Pure functions of the source *)

\* The check with two of its bounds exclusive.
ValidateOffByOne(iskorea, zoom) ==
    IF iskorea = FALSE /\ ~(7 < zoom /\ zoom <= 8) THEN Some(ForeignZoomMsg)
    ELSE IF iskorea = TRUE /\ ~(10 <= zoom /\ zoom < 16) THEN Some(KoreaZoomMsg)
    ELSE None

\* The check without its branch for foreign locations.
ValidateKoreaOnly(iskorea, zoom) ==
    IF iskorea = TRUE /\ ~(10 <= zoom /\ zoom <= 16) THEN Some(KoreaZoomMsg)
    ELSE None

\* Lines 243-246: None when the check passes, the message of the ValueError
\* when it raises.
Validate(iskorea, zoom) ==
    IF iskorea = FALSE /\ ~(7 <= zoom /\ zoom <= 8) THEN Some(ForeignZoomMsg)
    ELSE IF iskorea = TRUE /\ ~(10 <= zoom /\ zoom <= 16) THEN Some(KoreaZoomMsg)
    ELSE None

VWORLD_API_KEY == "DEMO_KEY"                                       \* line 13
DEFAULT_IMAGE_SIZE == "1024,1024"                                  \* line 14

\* Lines 17-26: the text of the URL, by its interpolated pieces.
build_vworld_static_url(lon, lat, zoom, basemap, size) ==
    <<"https://api.vworld.kr/req/image?service=image", "&request=getmap&key=",
      VWORLD_API_KEY, "&center=", lon, ",", lat, "&zoom=", zoom, "&basemap=",
      basemap, "&format=png", "&size=", size>>

\* Line 328
google_maps_url(lat, lon, zoom) ==
    <<"https://www.google.com/maps/@", lat, ",", lon, ",", zoom, "z">>

\* Line 264: tags or []
TagsOrEmpty(tags) ==
    IF tags = None THEN <<>> ELSE tags[1]

\* Lines 257-265
LocationData(args, zoom, address) ==
    [condition |-> args.condition, address |-> address,
     quiz_type |-> args.quiz_type, lat |-> args.lat, lon |-> args.lon,
     zoom |-> zoom, tags |-> TagsOrEmpty(args.tags)]

\* Line 40: f"quiz-{n}"
QuizId(n) == <<"quiz-", n>>

\* The identifier counts the requests, not the records.
NewQuizIdFromCalls(st) == QuizId(nCalls)

\* Line 40: f"quiz-{len(self._store) + 1}"
NewQuizId(st) == QuizId(Cardinality(DOMAIN st) + 1)

\* A record that is stored with its identifier alone, the candidate being
\* meant to follow.
NewRecordIdOnly(quiz_id, location_data) ==
    [quiz_id |-> quiz_id]

\* Lines 41-44
NewRecord(quiz_id, location_data) ==
    [quiz_id |-> quiz_id, candidate |-> location_data]

\* The write replaces the dictionary by one that holds the new record only.
StorePutReplacing(st, record) ==
    [k \in {record.quiz_id} |-> record]

\* The write shares the new candidate with the records already stored.
StorePutAliasing(st, record) ==
    [k \in DOMAIN st \cup {record.quiz_id} |->
        IF k = record.quiz_id THEN record
        ELSE [st[k] EXCEPT !.candidate = record.candidate]]

\* Line 45: self._store[quiz_id] = record
StorePut(st, record) ==
    [k \in DOMAIN st \cup {record.quiz_id} |->
        IF k = record.quiz_id THEN record ELSE st[k]]

\* Lines 48-51: QuizStore.get
StoreGet(st, quiz_id) ==
    IF quiz_id \notin DOMAIN st
    THEN Raised(<<UnknownQuizMsg>>)
    ELSE Returned(st[quiz_id])

\* A hint that answers an unknown identifier with an empty hint.
HintSwallowingError(st, quiz_id) ==
    LET got == StoreGet(st, quiz_id) IN
    IF got.kind = "error"
    THEN Returned([quiz_id |-> quiz_id])
    ELSE LET candidate == got.value[1].candidate IN
         Returned([quiz_id |-> quiz_id,
                   quiz_type |-> candidate.quiz_type,
                   center |-> [lon |-> candidate.lon, lat |-> candidate.lat],
                   condition |-> candidate.condition])

\* A hint that copies the address of the record.
HintWithAddress(st, quiz_id) ==
    LET got == StoreGet(st, quiz_id) IN
    IF got.kind = "error"
    THEN Raised(<<LookupErrorPrefix>> \o got.error)
    ELSE LET candidate == got.value[1].candidate IN
         Returned([quiz_id |-> quiz_id,
                   quiz_type |-> candidate.quiz_type,
                   center |-> [lon |-> candidate.lon, lat |-> candidate.lat],
                   condition |-> candidate.condition,
                   address |-> candidate.address])

\* Lines 289-309: request_hint
request_hint(st, quiz_id) ==
    LET got == StoreGet(st, quiz_id) IN
    IF got.kind = "error"
    THEN Raised(<<LookupErrorPrefix>> \o got.error)
    ELSE LET candidate == got.value[1].candidate IN
         Returned([quiz_id |-> quiz_id,
                   quiz_type |-> candidate.quiz_type,
                   center |-> [lon |-> candidate.lon, lat |-> candidate.lat],
                   condition |-> candidate.condition])

\* An answer that lets the error of QuizStore.get pass as it is.
AnswerNotWrapping(st, quiz_id) ==
    LET got == StoreGet(st, quiz_id) IN
    IF got.kind = "error"
    THEN Raised(got.error)
    ELSE LET candidate == got.value[1].candidate IN
         Returned([quiz_id |-> quiz_id,
                   quiz_type |-> candidate.quiz_type,
                   center |-> [lon |-> candidate.lon, lat |-> candidate.lat],
                   google_maps_url |->
                       google_maps_url(candidate.lat, candidate.lon, candidate.zoom),
                   condition |-> candidate.condition,
                   address |-> candidate.address])

\* Lines 312-335: request_answer
request_answer(st, quiz_id) ==
    LET got == StoreGet(st, quiz_id) IN
    IF got.kind = "error"
    THEN Raised(<<LookupErrorPrefix>> \o got.error)
    ELSE LET candidate == got.value[1].candidate IN
         Returned([quiz_id |-> quiz_id,
                   quiz_type |-> candidate.quiz_type,
                   center |-> [lon |-> candidate.lon, lat |-> candidate.lat],
                   google_maps_url |->
                       google_maps_url(candidate.lat, candidate.lon, candidate.zoom),
                   condition |-> candidate.condition,
                   address |-> candidate.address])

\* A message that names the place.
CreateMessageWithAddress(record, args, zoom) ==
    [quiz_id |-> record.quiz_id,
     url |-> build_vworld_static_url(args.lon, args.lat, zoom, "PHOTO",
                                     DEFAULT_IMAGE_SIZE),
     quiz_type |-> args.quiz_type,
     address |-> record.candidate.address]

\* Lines 270-281: the message returned by create_map_quiz, by its
\* interpolated pieces.
CreateMessage(record, args, zoom) ==
    [quiz_id |-> record.quiz_id,
     url |-> build_vworld_static_url(args.lon, args.lat, zoom, "PHOTO",
                                     DEFAULT_IMAGE_SIZE),
     quiz_type |-> args.quiz_type]

----------------------------------------------------------------------------
(* Calls *)

LookupIds == {QuizId(n) : n \in 0..(MaxCalls - 1)}

LookupArgs == {[quiz_id |-> i] : i \in LookupIds}

NoTwin == [address |-> None, quiz_id |-> None, record |-> None, out |-> NoResult]

IdleCall ==
    [op |-> "none", pc |-> "idle", args |-> <<>>, conc |-> FALSE, pre |-> None,
     zoom |-> None, geoCalls |-> 0, geo |-> "unasked", address |-> None,
     quiz_id |-> None, record |-> None, out |-> NoResult, twin |-> NoTwin]

NewCall(op, args) ==
    [IdleCall EXCEPT !.op = op, !.pc = "pending", !.args = args]

\* The call is over: its result stays with the client.
Finish(c, out, twinOut) ==
    [c EXCEPT !.pc = "done", !.pre = None, !.out = out, !.twin.out = twinOut]

\* A loop that starts a handler while another is suspended in the middle.
LoopAlwaysFree == TRUE

\* No handler is between its first and its last statement.  create_map_quiz
\* (async, no await) and the two synchronous tools never yield to the loop.
LoopFree == \A s \in Sessions : call[s].pc \in {"idle", "pending", "done"}

\* The create call of session s has been received and not yet answered.
CreateInFlight(s) ==
    /\ call[s].op = "create"
    /\ call[s].pc \notin {"idle", "done"}

CanSubmit(s) ==
    /\ call[s].pc \in {"idle", "done"}
    /\ nCalls < MaxCalls

----------------------------------------------------------------------------
(* Actions *)

Init ==
    /\ store = <<>>
    /\ twinStore = <<>>
    /\ call = [s \in Sessions |-> IdleCall]
    /\ created = <<>>
    /\ nCalls = 0

\* A client sends a create_map_quiz request.
SubmitCreate(s, args) ==
    /\ CanSubmit(s)
    /\ call' = [t \in Sessions |->
            IF t = s
            THEN [NewCall("create", args) EXCEPT
                    !.conc = \E u \in Sessions \ {s} : CreateInFlight(u)]
            ELSE [call[t] EXCEPT !.conc = @ \/ CreateInFlight(t)]]
    /\ nCalls' = nCalls + 1
    /\ UNCHANGED <<store, twinStore, created>>

\* A client sends a request_hint or request_answer request.
SubmitLookup(s, op, args) ==
    /\ CanSubmit(s)
    /\ call' = [call EXCEPT ![s] = NewCall(op, args)]
    /\ nCalls' = nCalls + 1
    /\ UNCHANGED <<store, twinStore, created>>

\* A signature whose default zoom is the one for foreign locations.
BoundZoomDefaultForeign(args) == IF args.zoom = None THEN 8 ELSE args.zoom[1]

\* Lines 200-208, 239-246: the handler starts, zoom takes its default, the
\* zoom check runs.
BoundZoom(args) == IF args.zoom = None THEN DefaultZoom ELSE args.zoom[1]

BeginCreate(s) ==
    /\ call[s].pc = "pending"
    /\ call[s].op = "create"
    /\ LoopFree
    /\ LET zoom == BoundZoom(call[s].args)
           rejected == Validate(call[s].args.iskorea, zoom)
       IN  call' = [call EXCEPT ![s] =
                IF rejected # None
                THEN Finish(@, Raised(<<CreateErrorPrefix, rejected[1]>>),
                               Raised(<<CreateErrorPrefix, rejected[1]>>))
                ELSE [@ EXCEPT !.pc = "validated", !.zoom = Some(zoom),
                               !.pre = Some(store)]]
    /\ UNCHANGED <<store, twinStore, created, nCalls>>

\* The record is written before the location is known to be valid.
GeocoderCallAfterWrite(s) ==
    /\ call[s].pc = "validated"
    /\ call' = [call EXCEPT ![s].pc = "geocoding", ![s].geoCalls = @ + 1]
    /\ store' = StorePut(store, NewRecord(NewQuizId(store),
                    LocationData(call[s].args, call[s].zoom[1], "")))
    /\ twinStore' = StorePut(twinStore, NewRecord(NewQuizId(twinStore),
                    LocationData(call[s].args, call[s].zoom[1], "")))
    /\ UNCHANGED <<created, nCalls>>

\* Lines 248-249: geolocator.reverse is called.
GeocoderCall(s) ==
    /\ call[s].pc = "validated"
    /\ call' = [call EXCEPT ![s].pc = "geocoding", ![s].geoCalls = @ + 1]
    /\ UNCHANGED <<store, twinStore, created, nCalls>>

\* A geocoder call that is made again when it raised.
GeocoderReturnRetrying(s, o, t) ==
    /\ call[s].pc = "geocoding"
    /\ o.kind = t.kind
    /\ call' = [call EXCEPT ![s] =
            CASE o.kind = "raise" ->
                    [@ EXCEPT !.pc = "validated", !.geo = o.kind]
              [] o.kind = "none" ->
                    Finish([@ EXCEPT !.geo = o.kind],
                           Raised(<<CreateErrorPrefix, BadCoordinateMsg>>),
                           Raised(<<CreateErrorPrefix, BadCoordinateMsg>>))
              [] o.kind = "found" ->
                    [@ EXCEPT !.pc = "located", !.geo = o.kind,
                              !.address = o.address,
                              !.twin.address = t.address]]
    /\ UNCHANGED <<store, twinStore, created, nCalls>>

\* Without the test for None: location.address raises on None, and the
\* caller gets the text of that exception.
GeocoderReturnNoNoneTest(s, o, t) ==
    /\ call[s].pc = "geocoding"
    /\ o.kind = t.kind
    /\ call' = [call EXCEPT ![s] =
            CASE o.kind = "raise" ->
                    Finish([@ EXCEPT !.geo = o.kind],
                           Raised(<<CreateErrorPrefix, GeocoderFailureMsg>>),
                           Raised(<<CreateErrorPrefix, GeocoderFailureMsg>>))
              [] o.kind = "none" ->
                    Finish([@ EXCEPT !.geo = o.kind],
                           Raised(<<CreateErrorPrefix, "NoneType has no attribute address">>),
                           Raised(<<CreateErrorPrefix, "NoneType has no attribute address">>))
              [] o.kind = "found" ->
                    [@ EXCEPT !.pc = "located", !.geo = o.kind,
                              !.address = o.address,
                              !.twin.address = t.address]]
    /\ UNCHANGED <<store, twinStore, created, nCalls>>

\* A geocoder call that never returns: the handler stays in it.
GeocoderNeverReturns(s, o, t) ==
    /\ call[s].pc = "geocoding"
    /\ o.kind = t.kind
    /\ UNCHANGED vars

\* Lines 249-254: geolocator.reverse raises, returns None or returns a
\* location; the twin run gets an outcome of the same kind.
GeocoderReturn(s, o, t) ==
    /\ call[s].pc = "geocoding"
    /\ o.kind = t.kind
    /\ call' = [call EXCEPT ![s] =
            CASE o.kind = "raise" ->
                    Finish([@ EXCEPT !.geo = o.kind],
                           Raised(<<CreateErrorPrefix, GeocoderFailureMsg>>),
                           Raised(<<CreateErrorPrefix, GeocoderFailureMsg>>))
              [] o.kind = "none" ->
                    Finish([@ EXCEPT !.geo = o.kind],
                           Raised(<<CreateErrorPrefix, BadCoordinateMsg>>),
                           Raised(<<CreateErrorPrefix, BadCoordinateMsg>>))
              [] o.kind = "found" ->
                    [@ EXCEPT !.pc = "located", !.geo = o.kind,
                              !.address = o.address,
                              !.twin.address = t.address]]
    /\ UNCHANGED <<store, twinStore, created, nCalls>>

\* Lines 257-267, 40-44: location_data is built, QuizStore.create computes
\* the identifier and builds the record.
StoreCreateAlloc(s) ==
    /\ call[s].pc = "located"
    /\ LET c == call[s]
           quiz_id == NewQuizId(store)
           twin_id == NewQuizId(twinStore)
       IN  call' = [call EXCEPT ![s] =
                [@ EXCEPT !.pc = "allocated",
                    !.quiz_id = Some(quiz_id),
                    !.record = Some(NewRecord(quiz_id,
                        LocationData(c.args, c.zoom[1], c.address[1]))),
                    !.twin.quiz_id = Some(twin_id),
                    !.twin.record = Some(NewRecord(twin_id,
                        LocationData(c.args, c.zoom[1], c.twin.address[1])))]]
    /\ UNCHANGED <<store, twinStore, created, nCalls>>

\* Lines 45-46: QuizStore.create writes the record and returns it.
StoreCreateWrite(s) ==
    /\ call[s].pc = "allocated"
    /\ store' = StorePut(store, call[s].record[1])
    /\ twinStore' = StorePut(twinStore, call[s].twin.record[1])
    /\ call' = [call EXCEPT ![s].pc = "stored"]
    /\ UNCHANGED <<created, nCalls>>

\* Lines 269-281: the URL and the message are built and returned.
Respond(s) ==
    /\ call[s].pc = "stored"
    /\ LET c == call[s]
           message == CreateMessage(c.record[1], c.args, c.zoom[1])
           twinMessage == CreateMessage(c.twin.record[1], c.args, c.zoom[1])
       IN  /\ call' = [call EXCEPT ![s] =
                    Finish(@, Returned(message), Returned(twinMessage))]
           /\ created' = Append(created,
                    [quiz_id |-> message.quiz_id, args |-> c.args,
                     zoom |-> c.zoom[1], address |-> c.address[1],
                     twinAddress |-> c.twin.address[1]])
    /\ UNCHANGED <<store, twinStore, nCalls>>

\* A hint that takes the record out of the store as it reads it.
RunHintPopping(s) ==
    /\ call[s].pc = "pending"
    /\ call[s].op = "hint"
    /\ LoopFree
    /\ call' = [call EXCEPT ![s] =
            Finish(@, request_hint(store, @.args.quiz_id),
                      request_hint(twinStore, @.args.quiz_id))]
    /\ store' = [k \in DOMAIN store \ {call[s].args.quiz_id} |-> store[k]]
    /\ twinStore' = [k \in DOMAIN twinStore \ {call[s].args.quiz_id} |-> twinStore[k]]
    /\ UNCHANGED <<created, nCalls>>

\* Lines 289-309: request_hint runs, whole.
RunHint(s) ==
    /\ call[s].pc = "pending"
    /\ call[s].op = "hint"
    /\ LoopFree
    /\ call' = [call EXCEPT ![s] =
            Finish(@, request_hint(store, @.args.quiz_id),
                      request_hint(twinStore, @.args.quiz_id))]
    /\ UNCHANGED <<store, twinStore, created, nCalls>>

\* Lines 312-335: request_answer runs, whole.
RunAnswer(s) ==
    /\ call[s].pc = "pending"
    /\ call[s].op = "answer"
    /\ LoopFree
    /\ call' = [call EXCEPT ![s] =
            Finish(@, request_answer(store, @.args.quiz_id),
                      request_answer(twinStore, @.args.quiz_id))]
    /\ UNCHANGED <<store, twinStore, created, nCalls>>

Next ==
    \/ \E s \in Sessions, args \in CreateArgs : SubmitCreate(s, args)
    \/ \E s \in Sessions, op \in {"hint", "answer"}, args \in LookupArgs :
            SubmitLookup(s, op, args)
    \/ \E s \in Sessions : BeginCreate(s)
    \/ \E s \in Sessions : GeocoderCall(s)
    \/ \E s \in Sessions, o \in GeoOutcomes, t \in GeoOutcomes :
            GeocoderReturn(s, o, t)
    \/ \E s \in Sessions : StoreCreateAlloc(s)
    \/ \E s \in Sessions : StoreCreateWrite(s)
    \/ \E s \in Sessions : Respond(s)
    \/ \E s \in Sessions : RunHint(s)
    \/ \E s \in Sessions : RunAnswer(s)

Spec == Init /\ [][Next]_vars

----------------------------------------------------------------------------
(* The zoom check alone: one create_map_quiz call with any zoom of a wide   *)
(* range is pending, and its handler runs up to the geocoder call.          *)

PolicyZoomInputs == {None} \cup {Some(z) : z \in 0..MaxPolicyZoom}

PolicyArgs ==
    { [condition |-> p.condition, iskorea |-> p.iskorea, quiz_type |-> p.quiz_type,
       lat |-> p.lat, lon |-> p.lon, zoom |-> z, tags |-> p.tags] :
        p \in Places, z \in PolicyZoomInputs }

InitValidation ==
    /\ store = <<>>
    /\ twinStore = <<>>
    /\ \E args \in PolicyArgs :
            call = [s \in Sessions |->
                        IF s = "s1" THEN NewCall("create", args) ELSE IdleCall]
    /\ created = <<>>
    /\ nCalls = 1

NextValidation ==
    \/ \E s \in Sessions : BeginCreate(s)
    \/ \E s \in Sessions : GeocoderCall(s)

SpecValidation == InitValidation /\ [][NextValidation]_vars

\* One create_map_quiz call with any zoom of the wide range, run to its end.
NextOneCreate ==
    \/ \E s \in Sessions : BeginCreate(s)
    \/ \E s \in Sessions : GeocoderCall(s)
    \/ \E s \in Sessions, o \in GeoOutcomes, t \in GeoOutcomes :
            GeocoderReturn(s, o, t)
    \/ \E s \in Sessions : StoreCreateAlloc(s)
    \/ \E s \in Sessions : StoreCreateWrite(s)
    \/ \E s \in Sessions : Respond(s)

SpecOneCreate == InitValidation /\ [][NextOneCreate]_vars

----------------------------------------------------------------------------
(* Progress.  The event loop runs every handler that is ready, each        *)
(* statement of a running handler is followed by the next, and the         *)
(* geocoder answers every call made to it (lines 248-249 return or raise). *)
(* Clients are under no obligation to send requests.                       *)

HandlerProgress(s) ==
    /\ WF_vars(BeginCreate(s))
    /\ WF_vars(GeocoderCall(s))
    /\ WF_vars(\E o \in GeoOutcomes, t \in GeoOutcomes : GeocoderReturn(s, o, t))
    /\ WF_vars(StoreCreateAlloc(s))
    /\ WF_vars(StoreCreateWrite(s))
    /\ WF_vars(Respond(s))
    /\ WF_vars(RunHint(s))
    /\ WF_vars(RunAnswer(s))

\* The requests of the progress runs: create_map_quiz in Korea with the
\* default zoom (legal) and with zoom 9 (illegal), and request_answer; the
\* twin run gets the geocoder's answers unchanged.
LiveArgs == {a \in CreateArgs : a.iskorea /\ a.zoom \in {None, Some(9)}}

NextLive ==
    \/ \E s \in Sessions, args \in LiveArgs : SubmitCreate(s, args)
    \/ \E s \in Sessions, args \in LookupArgs : SubmitLookup(s, "answer", args)
    \/ \E s \in Sessions : BeginCreate(s)
    \/ \E s \in Sessions : GeocoderCall(s)
    \/ \E s \in Sessions, o \in GeoOutcomes : GeocoderReturn(s, o, o)
    \/ \E s \in Sessions : StoreCreateAlloc(s)
    \/ \E s \in Sessions : StoreCreateWrite(s)
    \/ \E s \in Sessions : Respond(s)
    \/ \E s \in Sessions : RunAnswer(s)

FairSpec ==
    Init /\ [][NextLive]_vars /\ \A s \in Sessions : HandlerProgress(s)

----------------------------------------------------------------------------
(* Vocabulary of the claims *)

\* The legal zoom intervals as the specification states them.
LegalZoom(iskorea, zoom) ==
    \/ iskorea = FALSE /\ zoom \in 7..8
    \/ iskorea = TRUE /\ zoom \in 10..16

IsCreate(s) == call[s].op = "create"
IsLookup(s) == call[s].op \in {"hint", "answer"}
IsDone(s) == call[s].pc = "done"
Failed(s) == IsDone(s) /\ call[s].out.kind = "error"
Succeeded(s) == IsDone(s) /\ call[s].out.kind = "ok"

\* The error is the store's "unknown quiz id" error, possibly wrapped.
IsNotFound(error) == Len(error) > 0 /\ error[Len(error)] = UnknownQuizMsg

IsZoomError(error) ==
    Len(error) > 0 /\ error[Len(error)] \in {ForeignZoomMsg, KoreaZoomMsg}

CreatedIds == {created[i].quiz_id : i \in DOMAIN created}

\* The handler of session s reaches its end in this step.
Completes(s) == call[s].pc # "done" /\ call'[s].pc = "done"

\* The store as it was when the running create call of session s began.
PreStore(s) == IF call[s].pre = None THEN store ELSE call[s].pre[1]

OnlySession(s) == \A t \in Sessions \ {s} : call[t].pc = "idle"

----------------------------------------------------------------------------
(* Claims *)

\* C1: the zoom check of create_map_quiz accepts exactly the legal zooms:
\* once the check has run, the call has passed it (and goes on to the
\* geocoder) if and only if its zoom is in [7,8] for iskorea = false and in
\* [10,16] for iskorea = true; otherwise the call has ended with the zoom
\* error of its region class.
C1_ZoomCheckExact ==
    \A s \in Sessions :
        (IsCreate(s) /\ call[s].pc # "pending") =>
            LET args == call[s].args IN
            IF LegalZoom(args.iskorea, BoundZoom(args))
            THEN call[s].pc \in {"validated", "geocoding"}
            ELSE /\ Failed(s)
                 /\ call[s].out.error =
                        <<CreateErrorPrefix,
                          IF args.iskorea THEN KoreaZoomMsg ELSE ForeignZoomMsg>>

\* A call in Korea with zoom 16, the upper bound, has passed the check.
C1_Witness ==
    \E s \in Sessions :
        /\ IsCreate(s)
        /\ call[s].args.iskorea = TRUE
        /\ call[s].args.zoom = Some(16)
        /\ call[s].pc = "geocoding"

\* C2: the geocoder is invoked only by a create call that has passed the
\* zoom check: a call that has invoked it has a legal zoom and has bound it
\* in the check, a call with an illegal zoom has never invoked it, and a call
\* that has not passed the check yet has not invoked it.
C2_ValidationBeforeGeocoder ==
    \A s \in Sessions :
        /\ call[s].geoCalls > 0 =>
                /\ IsCreate(s)
                /\ call[s].zoom # None
                /\ LegalZoom(call[s].args.iskorea, call[s].zoom[1])
        /\ (IsCreate(s) /\ ~LegalZoom(call[s].args.iskorea, BoundZoom(call[s].args)))
                => call[s].geoCalls = 0
        /\ call[s].pc \in {"idle", "pending"} => call[s].geoCalls = 0

\* One call was rejected for its zoom without a geocoder call while another
\* call, with a legal zoom, has invoked the geocoder.
C2_Witness ==
    \E s, t \in Sessions :
        /\ IsCreate(s) /\ Failed(s) /\ IsZoomError(call[s].out.error)
        /\ call[s].geoCalls = 0
        /\ IsCreate(t) /\ call[t].geoCalls = 1

\* C3: a create_map_quiz call that ends in an error leaves the store as it
\* was when the call began.
C3_FailedCreateKeepsStore ==
    [][\A s \in Sessions :
        (IsCreate(s) /\ Completes(s) /\ call'[s].out.kind = "error")
            => store' = PreStore(s)]_vars

\* A session created a quiz and then made a create call that the geocoder
\* failed; the store still holds the one record.
C3_Witness ==
    \E s \in Sessions :
        /\ OnlySession(s)
        /\ nCalls = 2
        /\ IsCreate(s) /\ Failed(s) /\ call[s].geoCalls = 1
        /\ DOMAIN store = {QuizId(1)}

\* C4: the Nth successful create returns the identifier quiz-N, whatever
\* failed creates came before or between; every identifier a create has
\* returned to its caller is one of these.
C4_NthCreateGetsQuizN ==
    /\ \A i \in DOMAIN created : created[i].quiz_id = QuizId(i)
    /\ \A s \in Sessions :
            (IsCreate(s) /\ Succeeded(s)) =>
                call[s].out.value[1].quiz_id \in CreatedIds

\* One session made three create calls, one failed, and its last call
\* returned quiz-2.
C4_Witness ==
    \E s \in Sessions :
        /\ OnlySession(s)
        /\ nCalls = 3
        /\ Len(created) = 2
        /\ IsCreate(s) /\ Succeeded(s)
        /\ call[s].out.value[1].quiz_id = QuizId(2)

\* C5: create calls in flight at the same time never obtain the same
\* identifier and never overwrite an entry: the identifiers allocated to
\* different sessions differ, the identifiers returned are pairwise distinct,
\* and the store holds one record per create that has written.
C5_ConcurrentCreatesDistinct ==
    /\ \A s, t \in Sessions :
            (s # t /\ call[s].quiz_id # None /\ call[t].quiz_id # None)
                => call[s].quiz_id # call[t].quiz_id
    /\ \A i, j \in DOMAIN created :
            i # j => created[i].quiz_id # created[j].quiz_id
    /\ Cardinality(DOMAIN store) =
            Len(created) + Cardinality({s \in Sessions : call[s].pc = "stored"})

\* Two create calls that were in flight at the same time have both succeeded
\* and the store holds two records.
C5_Witness ==
    /\ \A s \in Sessions : IsCreate(s) /\ Succeeded(s) /\ call[s].conc
    /\ Cardinality(DOMAIN store) = 2
    /\ Cardinality({call[s].out.value[1].quiz_id : s \in Sessions}) = 2

\* C6: a record is visible to lookups if and only if a successful create
\* produced it: a request_hint or request_answer call succeeds exactly when
\* its identifier is one that a create call has returned before, and between
\* handlers the keys of the store are exactly the identifiers returned.
C6_VisibleIffCreated ==
    /\ [](LoopFree => DOMAIN store = CreatedIds)
    /\ [][\A s \in Sessions :
            (IsLookup(s) /\ Completes(s)) =>
                (call'[s].out.kind = "ok" <=> call[s].args.quiz_id \in CreatedIds)]_vars

\* A lookup of quiz-1 has succeeded, and so has a lookup that followed a
\* second create.
C6_Witness ==
    \E s \in Sessions :
        /\ OnlySession(s)
        /\ nCalls = 3
        /\ Len(created) = 2
        /\ IsLookup(s) /\ Succeeded(s)
        /\ call[s].args.quiz_id = QuizId(1)

\* C7: request_hint and request_answer (and the QuizStore.get they call)
\* with an identifier that no create has returned end in the store's
\* "unknown quiz id" error and return no payload.
C7_UnknownIdNotFound ==
    [][\A s \in Sessions :
        (IsLookup(s) /\ Completes(s) /\ call[s].args.quiz_id \notin CreatedIds) =>
            /\ call'[s].out.kind = "error"
            /\ IsNotFound(call'[s].out.error)
            /\ call'[s].out.value = None
            /\ StoreGet(store, call[s].args.quiz_id).kind = "error"]_vars

\* A hint and an answer were asked of the empty store and both ended in the
\* error.
C7_Witness ==
    /\ store = <<>>
    /\ \E s, t \in Sessions :
        /\ call[s].op = "hint" /\ Failed(s) /\ IsNotFound(call[s].out.error)
        /\ call[t].op = "answer" /\ Failed(t) /\ IsNotFound(call[t].out.error)

\* C8: the response of a successful request_hint has exactly the fields
\* quiz_id, quiz_type, center {lon, lat} and condition, with the identifier
\* asked for and the values supplied to the create call that returned it, and
\* no address field.
C8_HintFieldsNoAddress ==
    \A s \in Sessions :
        (call[s].op = "hint" /\ Succeeded(s)) =>
            LET r == call[s].out.value[1] IN
            /\ DOMAIN r = {"quiz_id", "quiz_type", "center", "condition"}
            /\ DOMAIN r.center = {"lon", "lat"}
            /\ "address" \notin DOMAIN r
            /\ r.quiz_id = call[s].args.quiz_id
            /\ \E i \in DOMAIN created :
                /\ created[i].quiz_id = r.quiz_id
                /\ r.quiz_type = created[i].args.quiz_type
                /\ r.center.lon = created[i].args.lon
                /\ r.center.lat = created[i].args.lat
                /\ r.condition = created[i].args.condition

\* A hint for quiz-2 has been answered.
C8_Witness ==
    \E s \in Sessions :
        /\ call[s].op = "hint" /\ Succeeded(s)
        /\ call[s].args.quiz_id = QuizId(2)
        /\ created[1].args # created[2].args

\* C9: the response of a successful request_answer carries the address the
\* geocoder resolved for that quiz at creation and the lat, lon, zoom (in the
\* map URL), condition and quiz_type supplied at creation, whatever calls
\* came in between.
C9_AnswerRoundTrip ==
    \A s \in Sessions :
        (call[s].op = "answer" /\ Succeeded(s)) =>
            LET r == call[s].out.value[1] IN
            /\ r.quiz_id = call[s].args.quiz_id
            /\ \E i \in DOMAIN created :
                /\ created[i].quiz_id = r.quiz_id
                /\ r.address = created[i].address
                /\ r.center.lat = created[i].args.lat
                /\ r.center.lon = created[i].args.lon
                /\ r.google_maps_url =
                        <<"https://www.google.com/maps/@", created[i].args.lat, ",",
                          created[i].args.lon, ",", created[i].zoom, "z">>
                /\ r.condition = created[i].args.condition
                /\ r.quiz_type = created[i].args.quiz_type

\* One session created two quizzes of different places and addresses and
\* then got the answer of the first.
C9_Witness ==
    \E s \in Sessions :
        /\ OnlySession(s)
        /\ nCalls = 3
        /\ Len(created) = 2
        /\ created[1].address # created[2].address
        /\ created[1].args # created[2].args
        /\ call[s].op = "answer" /\ Succeeded(s)
        /\ call[s].args.quiz_id = QuizId(1)
        /\ call[s].out.value[1].address = created[1].address

\* C10: of two runs of the same calls that differ only in the addresses the
\* geocoder returns, the create responses and the hint responses are the
\* same, and an answer response differs in its address field at most.
C10_AddressOnlyInAnswer ==
    \A s \in Sessions :
        /\ (call[s].op \in {"create", "hint"} /\ IsDone(s))
                => call[s].out = call[s].twin.out
        /\ (call[s].op = "answer" /\ IsDone(s)) =>
                /\ call[s].out.kind = call[s].twin.out.kind
                /\ call[s].out.error = call[s].twin.out.error
                /\ Succeeded(s) =>
                    [call[s].out.value[1] EXCEPT !.address = ""] =
                    [call[s].twin.out.value[1] EXCEPT !.address = ""]

\* The two runs resolved different addresses for quiz-1; its create response
\* and its hint are the same in both, its answer is not.
C10_Witness ==
    \E s, t \in Sessions :
        /\ Len(created) = 1
        /\ created[1].address # created[1].twinAddress
        /\ call[s].op = "hint" /\ Succeeded(s)
        /\ call[s].out = call[s].twin.out
        /\ call[t].op = "answer" /\ Succeeded(t)
        /\ call[t].out # call[t].twin.out

\* C11 (as claimed): the error a caller of request_hint or request_answer
\* receives for an unknown identifier is the error of QuizStore.get as it was
\* raised, its message alone with nothing added.
C11_ErrorUnchanged ==
    \A s \in Sessions :
        (IsLookup(s) /\ Failed(s)) =>
            call[s].out.error = StoreGet(store, QuizId(0)).error

\* C11 (amended): the error a caller of request_hint or request_answer
\* receives for an unknown identifier is a new error whose message is the
\* prefix of the tool followed by the message of QuizStore.get, unaltered.
C11_ErrorWrapped ==
    \A s \in Sessions :
        (IsLookup(s) /\ Failed(s)) =>
            /\ Len(call[s].out.error) = 2
            /\ call[s].out.error[1] = LookupErrorPrefix
            /\ <<call[s].out.error[2]>> = StoreGet(store, QuizId(0)).error
            /\ call[s].out.error[2] = UnknownQuizMsg

\* A hint and an answer for identifiers that are not in a store of one
\* record have both failed.
C11_Witness ==
    /\ Len(created) = 1
    /\ \E s, t \in Sessions :
        /\ call[s].op = "hint" /\ Failed(s)
        /\ call[t].op = "answer" /\ Failed(t)

IsBadLocation(error) == Len(error) > 0 /\ error[Len(error)] = BadCoordinateMsg

\* The candidate of the call of session s with the address resolved for it.
AugmentedCandidate(s) ==
    LET args == call[s].args IN
    [condition |-> args.condition, address |-> call[s].address[1],
     quiz_type |-> args.quiz_type, lat |-> args.lat, lon |-> args.lon,
     zoom |-> BoundZoom(args),
     tags |-> IF args.tags = None THEN <<>> ELSE args.tags[1]]

\* The create call of session s ends in this step with success, and the
\* store is the store of its start with one more record, the candidate with
\* its address, under the identifier returned.
StoresOneRecord(s) ==
    LET id == call'[s].out.value[1].quiz_id IN
    /\ call'[s].out.kind = "ok"
    /\ id \notin DOMAIN PreStore(s)
    /\ DOMAIN store' = DOMAIN PreStore(s) \cup {id}
    /\ \A k \in DOMAIN PreStore(s) : store'[k] = PreStore(s)[k]
    /\ store'[id] = [quiz_id |-> id, candidate |-> AugmentedCandidate(s)]

\* C13 (as claimed): a create call fails with the zoom error whenever its
\* zoom is illegal; otherwise it fails with the invalid-location error if and
\* only if the geocoder returned no result; otherwise it succeeds and stores
\* exactly one record, the candidate with the resolved address.
C13_ThreeOutcomes ==
    [][\A s \in Sessions :
        (IsCreate(s) /\ Completes(s)) =>
            LET args == call[s].args
                out == call'[s].out
            IN  IF ~LegalZoom(args.iskorea, BoundZoom(args))
                THEN out.kind = "error" /\ IsZoomError(out.error)
                ELSE /\ (out.kind = "error" /\ IsBadLocation(out.error))
                            <=> call'[s].geo = "none"
                     /\ ~(out.kind = "error" /\ IsBadLocation(out.error))
                            => StoresOneRecord(s)]_vars

\* C13 (amended): as claimed, with the fourth outcome: when the zoom is legal
\* and the geocoder raises, the call fails with the geocoder's error, which
\* is neither the zoom error nor the invalid-location error.
C13_FourOutcomes ==
    [][\A s \in Sessions :
        (IsCreate(s) /\ Completes(s)) =>
            LET args == call[s].args
                out == call'[s].out
            IN  IF ~LegalZoom(args.iskorea, BoundZoom(args))
                THEN /\ out.kind = "error" /\ IsZoomError(out.error)
                     /\ call'[s].geo = "unasked"
                ELSE CASE call'[s].geo = "none" ->
                            out.kind = "error" /\ IsBadLocation(out.error)
                       [] call'[s].geo = "raise" ->
                            /\ out.kind = "error"
                            /\ ~IsBadLocation(out.error)
                            /\ ~IsZoomError(out.error)
                            /\ store' = PreStore(s)
                       [] call'[s].geo = "found" -> StoresOneRecord(s)
                       [] OTHER -> FALSE]_vars

\* One session made three create calls: one succeeded, and the last one
\* ended with the invalid-location error, the geocoder having found nothing.
C13_Witness ==
    \E s \in Sessions :
        /\ OnlySession(s)
        /\ nCalls = 3
        /\ Len(created) = 1
        /\ IsCreate(s) /\ Failed(s) /\ IsBadLocation(call[s].out.error)
        /\ call[s].geo = "none"

\* C14: the geocoder is invoked exactly once by every create call that has
\* passed the zoom check, also when the invocation raised or found nothing,
\* and never by request_hint or request_answer: an answer is the address
\* stored at creation.
C14_GeocoderOnce ==
    \A s \in Sessions :
        /\ IsLookup(s) => call[s].geoCalls = 0
        /\ IsCreate(s) =>
            /\ call[s].geoCalls <= 1
            /\ call[s].pc \in {"geocoding", "located", "allocated", "stored"}
                    => call[s].geoCalls = 1
            /\ (IsDone(s) /\ LegalZoom(call[s].args.iskorea, BoundZoom(call[s].args)))
                    => call[s].geoCalls = 1
            /\ call[s].geo # "unasked" => call[s].geoCalls = 1
        /\ (call[s].op = "answer" /\ Succeeded(s)) =>
                \E i \in DOMAIN created :
                    /\ created[i].quiz_id = call[s].args.quiz_id
                    /\ call[s].out.value[1].address = created[i].address

\* The geocoder gave two addresses for the same coordinates in two creates
\* of one session; the answer of the first quiz, asked afterwards, is the
\* first address.
C14_Witness ==
    \E s \in Sessions :
        /\ OnlySession(s)
        /\ nCalls = 3
        /\ Len(created) = 2
        /\ created[1].args = created[2].args
        /\ created[1].address # created[2].address
        /\ call[s].op = "answer" /\ Succeeded(s)
        /\ call[s].args.quiz_id = QuizId(1)
        /\ call[s].geoCalls = 0
        /\ call[s].out.value[1].address = created[1].address

\* The record has its identifier, the whole candidate and a resolved address.
CompleteRecord(k, record) ==
    /\ DOMAIN record = {"quiz_id", "candidate"}
    /\ record.quiz_id = k
    /\ DOMAIN record.candidate =
            {"condition", "address", "quiz_type", "lat", "lon", "zoom", "tags"}
    /\ record.candidate.address \in Addresses

\* C15: a lookup never observes a partially written record.  Every
\* identifier in the store has a complete record under it, the identifier a
\* running create has computed is not in the store before the record is
\* written, and a finished lookup has failed with the unknown-id error or
\* has returned the fields of a complete record.
C15_NoPartialRecord ==
    /\ \A k \in DOMAIN store : CompleteRecord(k, store[k])
    /\ \A s \in Sessions :
        /\ call[s].pc = "allocated" => call[s].quiz_id[1] \notin DOMAIN store
        /\ (IsLookup(s) /\ IsDone(s)) =>
            \/ Failed(s) /\ IsNotFound(call[s].out.error)
            \/ /\ Succeeded(s)
               /\ call[s].args.quiz_id \in DOMAIN store
               /\ call[s].op = "answer" =>
                    call[s].out.value[1].address =
                        store[call[s].args.quiz_id].candidate.address

\* A create has just written the record of quiz-1 while an answer request
\* for quiz-1 is waiting.
C15_Witness ==
    \E s, t \in Sessions :
        /\ IsCreate(s) /\ call[s].pc = "stored" /\ call[s].quiz_id = Some(QuizId(1))
        /\ call[t].op = "answer" /\ call[t].pc = "pending"
        /\ call[t].args.quiz_id = QuizId(1)

\* The event loop can start the handler of the pending call of session t.
CanStart(t) == ENABLED (BeginCreate(t) \/ RunHint(t) \/ RunAnswer(t))

\* C16: external calls never happen inside the section that mutates the
\* store: while a create waits for the geocoder it has not computed its
\* identifier yet, the message with the URL is built only for a record that
\* is in the store, and while a create waits for the geocoder the pending
\* call of any other session can be started.
C16_SlowGeocoderStallsNobody ==
    \A s \in Sessions :
        /\ call[s].pc \in {"validated", "geocoding"} => call[s].quiz_id = None
        /\ (IsCreate(s) /\ Succeeded(s)) =>
                call[s].out.value[1].quiz_id \in DOMAIN store
        /\ \A t \in Sessions \ {s} :
                (call[s].pc = "geocoding" /\ call[t].pc = "pending")
                    => CanStart(t)

\* C17: every record in the store has a zoom in {7,8} or in {10,...,16} and
\* a resolved address, whatever zoom the create call was given.
C17_StoredZoomLegal ==
    \A k \in DOMAIN store :
        /\ store[k].candidate.zoom \in {7, 8} \cup 10..16
        /\ "address" \in DOMAIN store[k].candidate
        /\ store[k].candidate.address \in Addresses

\* A record with zoom 16, the largest legal one, is in the store.
C17_Witness ==
    \E k \in DOMAIN store :
        /\ store[k].candidate.zoom = 16
        /\ store[k].candidate.address \in Addresses

\* C18: a create_map_quiz call that omits zoom runs with zoom 12: for a
\* foreign location it fails the zoom check, with no geocoder call, no
\* identifier and no change of the store; for a location in Korea it passes
\* the check, and the record it stores on success has zoom 12.
C18_DefaultZoom ==
    /\ [](\A s \in Sessions :
            (IsCreate(s) /\ call[s].args.zoom = None /\ call[s].pc # "pending") =>
                IF call[s].args.iskorea
                THEN /\ call[s].zoom = Some(12)
                     /\ ~(Failed(s) /\ IsZoomError(call[s].out.error))
                     /\ Succeeded(s) =>
                            store[call[s].out.value[1].quiz_id].candidate.zoom = 12
                ELSE /\ Failed(s) /\ IsZoomError(call[s].out.error)
                     /\ call[s].geoCalls = 0
                     /\ call[s].quiz_id = None)
    /\ [][\A s \in Sessions :
            (/\ IsCreate(s) /\ Completes(s)
             /\ call[s].args.zoom = None /\ ~call[s].args.iskorea)
                => store' = store]_vars

\* A call without zoom for a foreign location was rejected and one for a
\* location in Korea has stored its record.
C18_Witness ==
    \E s, t \in Sessions :
        /\ IsCreate(s) /\ call[s].args.zoom = None /\ ~call[s].args.iskorea
        /\ Failed(s)
        /\ IsCreate(t) /\ call[t].args.zoom = None /\ call[t].args.iskorea
        /\ Succeeded(t)

\* C19: if the geocoder answers every call, every create_map_quiz call that
\* has been received ends with a success response or with an error; a create
\* call that has passed the zoom check and has received an address ends with
\* a success response at a time when its record is in the store; and a
\* request_answer call for an identifier whose record is in the store ends
\* with a success response carrying that record's address.
C19_CreateCompletes ==
    /\ \A s \in Sessions :
            CreateInFlight(s) ~> (IsCreate(s) /\ (Succeeded(s) \/ Failed(s)))
    /\ \A s \in Sessions :
            (IsCreate(s) /\ call[s].pc = "located") ~>
                /\ IsCreate(s) /\ Succeeded(s)
                /\ call[s].out.value[1].quiz_id \in DOMAIN store
                /\ store[call[s].out.value[1].quiz_id].candidate.address
                        = call[s].address[1]
    /\ \A s \in Sessions, k \in LookupIds :
            (/\ call[s].op = "answer" /\ call[s].pc = "pending"
             /\ call[s].args.quiz_id = k /\ k \in DOMAIN store) ~>
                /\ call[s].op = "answer" /\ Succeeded(s)
                /\ call[s].args.quiz_id = k
                /\ call[s].out.value[1].address = store[k].candidate.address

\* A create call has ended with a success response while the other session
\* had a call of its own, and a request_answer call for the identifier it
\* returned has then succeeded.
C19_Witness ==
    \E s \in Sessions, t \in Sessions :
        /\ s # t
        /\ IsCreate(s) /\ Succeeded(s) /\ call[s].conc
        /\ call[t].op = "answer" /\ Succeeded(t)
        /\ call[t].args.quiz_id = call[s].out.value[1].quiz_id

====
